---- MODULE Spec2Model ----
(***************************************************************************)
(* Model of SpotifyDataAnalyzer (src/data_analysis.py): the pipeline       *)
(* load_data -> prepare_data -> visualize_data -> test_hypotheses ->       *)
(* generate_report run by main().                                          *)
(*                                                                         *)
(* Representation.                                                         *)
(*  - A cell is a tuple: <<>> is an absent value (NaN/None), <<v>> a       *)
(*    present value; a string read where a number is expected is           *)
(*    <<"str", s>>.                                                        *)
(*  - A table is [cols, dtype, runs]; runs is the run-length encoding of   *)
(*    the row sequence: runs[i] = [row |-> [c \in cols |-> cell], n |-> k] *)
(*    stands for k consecutive equal rows (k >= 1).                        *)
(*  - Numbers are fixed point integers with step 1/Half of the column's    *)
(*    unit, so that the median of two input values is exact: popularity    *)
(*    in half points, danceability and energy in 1/200, duration_ms in     *)
(*    half milliseconds.  Input values are whole units (multiples of Half).*)
(*  - The band labels 'Низкая', 'Средняя', 'Высокая' of the source are     *)
(*    written "Low", "Medium", "High".                                     *)
(*  - p-values are in hundredths (Alpha = 5 is 0.05); a NaN statistic is   *)
(*    the absent cell.                                                     *)
(***************************************************************************)
EXTENDS Integers, Sequences, FiniteSets, TLC

VARIABLES pc, data, log, status, verdict, attempts, p_value, corr,
          valid_genres, posthoc, sample

vars == <<pc, data, log, status, verdict, attempts, p_value, corr,
          valid_genres, posthoc, sample>>

(***************************************************************************)
(* Bounds of the explored inputs.                                          *)
(***************************************************************************)
MaxRuns == 3

MaxGenres == 6

(***************************************************************************)
(* Cells and numbers.                                                      *)
(***************************************************************************)
Half == 2

NA == <<>>

IsNull(c) == Len(c) = 0

Abs(x) == IF x < 0 THEN -x ELSE x

RECURSIVE SeqSum(_)
SeqSum(s) == IF s = <<>> THEN 0 ELSE Head(s) + SeqSum(Tail(s))

\* the element of a singleton; Only({F(x) : x \in {e}}) evaluates e once
Only(S) == CHOOSE x \in S : TRUE

Labels == <<"Low", "Medium", "High">>

Label(k) == IF k \in 1..3 THEN <<Labels[k]>> ELSE NA

Unknown == "Unknown"

(***************************************************************************)
(* Column statistics over a run-length encoded table.                      *)
(***************************************************************************)
Cell(t, i, c) == t.runs[i].row[c]

NRows(t) == SeqSum([i \in 1..Len(t.runs) |-> t.runs[i].n])

NullCount(t, c) ==
    SeqSum([i \in 1..Len(t.runs) |->
              IF IsNull(Cell(t, i, c)) THEN t.runs[i].n ELSE 0])

NotNullCount(t, c) == NRows(t) - NullCount(t, c)

Values(t, c) ==
    {Cell(t, i, c)[1] : i \in {j \in 1..Len(t.runs) : ~IsNull(Cell(t, j, c))}}

CountOf(t, c, v) ==
    SeqSum([i \in 1..Len(t.runs) |->
              IF ~IsNull(Cell(t, i, c)) /\ Cell(t, i, c)[1] = v
              THEN t.runs[i].n ELSE 0])

CountLT(t, c, v) ==
    SeqSum([i \in 1..Len(t.runs) |->
              IF ~IsNull(Cell(t, i, c)) /\ Cell(t, i, c)[1] < v
              THEN t.runs[i].n ELSE 0])

\* the k-th smallest present value of column c, k counted from 0
Kth(t, c, k) ==
    CHOOSE v \in Values(t, c) :
        CountLT(t, c, v) <= k /\ k < CountLT(t, c, v) + CountOf(t, c, v)

ColMin(t, c) == CHOOSE v \in Values(t, c) : \A w \in Values(t, c) : v <= w

ColMax(t, c) == CHOOSE v \in Values(t, c) : \A w \in Values(t, c) : w <= v

NUnique(t, c) == Cardinality(Values(t, c))

\* Series.median(): skips absent values, NaN when nothing is present
Median(t, c) ==
    LET m == NotNullCount(t, c)
    IN  IF m = 0 THEN NA
        ELSE IF m % 2 = 1 THEN <<Kth(t, c, (m - 1) \div 2)>>
        ELSE <<(Kth(t, c, (m \div 2) - 1) + Kth(t, c, m \div 2)) \div 2>>

\* the table with column c replaced (or added) by the cells col[i], typed ty
WithColumn(t, c, ty, col) ==
    [cols  |-> t.cols \cup {c},
     dtype |-> [d \in t.cols \cup {c} |-> IF d = c THEN ty ELSE t.dtype[d]],
     runs  |-> [i \in 1..Len(t.runs) |->
                  [row |-> [d \in t.cols \cup {c} |->
                              IF d = c THEN col[i] ELSE t.runs[i].row[d]],
                   n   |-> t.runs[i].n]]]

Column(t, c) == [i \in 1..Len(t.runs) |-> Cell(t, i, c)]

(***************************************************************************)
(* prepare_data, step 1: missing values.                                   *)
(***************************************************************************)
Missing(t) == {c \in t.cols : NullCount(t, c) > 0}

NumericCols(t) == {c \in t.cols : t.dtype[c] = "num"}

CategoricalCols(t) == {c \in t.cols : t.dtype[c] = "obj"}

FillValue(t, c) ==
    IF c \in NumericCols(t) THEN Median(t, c)
    ELSE IF c \in CategoricalCols(t) THEN <<Unknown>>
    ELSE NA

\* Series.fillna(value): only the absent cells are replaced
FillCell(t, i, c) ==
    IF IsNull(Cell(t, i, c)) THEN FillValue(t, c) ELSE Cell(t, i, c)

Fillna(t) ==
    [t EXCEPT !.runs =
        [i \in 1..Len(t.runs) |->
           [row |-> [c \in t.cols |->
                       IF c \in Missing(t) THEN FillCell(t, i, c)
                       ELSE Cell(t, i, c)],
            n   |-> t.runs[i].n]]]

\* a resolver that drops the incomplete rows instead of filling them
DropNa(t) ==
    [t EXCEPT !.runs =
        SelectSeq(t.runs, LAMBDA r : \A c \in DOMAIN r.row : ~IsNull(r.row[c]))]

ResolveMissingValues(t) == IF Missing(t) # {} THEN Fillna(t) ELSE t

(***************************************************************************)
(* prepare_data, step 2: derived features.                                 *)
(***************************************************************************)
Raised == [raised |-> TRUE, col |-> <<>>]

Ok(col) == [raised |-> FALSE, col |-> col]

\* numpy searchsorted(side='left'), as used by pandas for right-closed
\* intervals: the number of edges strictly below x
SearchSorted(e, x) == Cardinality({j \in 1..Len(e) : e[j] < x})

\* 3 * (the quantile j/3 of column c), linear interpolation between the
\* two neighbouring order statistics
Quantile3(t, c, m, j) ==
    LET pos == (m - 1) * j
        lo  == pos \div 3
        r   == pos % 3
    IN  IF r = 0 THEN 3 * Kth(t, c, lo)
        ELSE (3 - r) * Kth(t, c, lo) + r * Kth(t, c, lo + 1)

QcutEdges(t, c) ==
    Only({[j \in 1..4 |-> Quantile3(t, c, m, j - 1)] : m \in {NotNullCount(t, c)}})

\* pandas raises "Bin edges must be unique" otherwise
EdgesUnique(e) == Cardinality({e[j] : j \in 1..Len(e)}) = Len(e)

\* include_lowest=True: a value equal to the first edge goes to bin 1
BinIncludeLowest(e, x) == IF x = e[1] THEN 1 ELSE SearchSorted(e, x)

\* pd.qcut(column, q=3, labels=...)
QcutWith(t, c, e) ==
    IF ~EdgesUnique(e) THEN Raised
    ELSE Ok([i \in 1..Len(t.runs) |->
               IF IsNull(Cell(t, i, c)) THEN NA
               ELSE Label(BinIncludeLowest(e, 3 * Cell(t, i, c)[1]))])

Qcut(t, c) ==
    IF t.dtype[c] # "num" \/ NotNullCount(t, c) = 0 THEN Raised
    ELSE Only({QcutWith(t, c, e) : e \in {QcutEdges(t, c)}})

\* 3000 * (the 4 edges of pd.cut(column, bins=3)): equal width over
\* [min, max], the first edge lowered by 0.1% of the range; a constant
\* column gets the range min -/+ 0.1% of |min| (0.001 when min = 0)
CutEdges(mn, mx) ==
    LET w == mx - mn
        d == IF mn # 0 THEN 3 * Abs(mn) ELSE 3 * Half
    IN  IF mn = mx
        THEN <<3000 * mn - d, 3000 * mn - (d \div 3),
               3000 * mn + (d \div 3), 3000 * mn + d>>
        ELSE <<3000 * mn - 3 * w, 3000 * mn + 1000 * w,
               3000 * mn + 2000 * w, 3000 * mx>>

CutEdges3(t, c) ==
    Only({CutEdges(mn, mx) : mn \in {ColMin(t, c)}, mx \in {ColMax(t, c)}})

\* pd.cut(column, bins=3, labels=...)
CutWith(t, c, e) ==
    Ok([i \in 1..Len(t.runs) |->
          IF IsNull(Cell(t, i, c)) THEN NA
          ELSE Label(SearchSorted(e, 3000 * Cell(t, i, c)[1]))])

Cut3(t, c) ==
    IF t.dtype[c] # "num" \/ NotNullCount(t, c) = 0 THEN Raised
    ELSE Only({CutWith(t, c, e) : e \in {CutEdges3(t, c)}})

\* lines 171-188: qcut when there are at least 3 distinct values, else cut
PopularityCategory(t) ==
    IF NUnique(t, "popularity") >= 3 THEN Qcut(t, "popularity")
    ELSE Cut3(t, "popularity")

\* bins=[0, 0.4, 0.7, 1] in 1/200
DanceBins == <<0, 40 * Half, 70 * Half, 100 * Half>>

\* right=False: the intervals are closed on the left
DanceBinLeftClosed(x) == Cardinality({j \in 1..Len(DanceBins) : DanceBins[j] <= x})

DanceBin(x) == SearchSorted(DanceBins, x)

\* pd.cut(danceability, bins=[0, 0.4, 0.7, 1], labels=...)
DanceabilityCategory(t) ==
    IF t.dtype["danceability"] # "num" THEN Raised
    ELSE Ok([i \in 1..Len(t.runs) |->
               IF IsNull(Cell(t, i, "danceability")) THEN NA
               ELSE Label(DanceBin(Cell(t, i, "danceability")[1]))])

\* the thresholds 0.3 and 0.7 in 1/200
EnergyEdges == <<30 * Half, 70 * Half>>

\* np.select(conditions, choices, default='Средняя'); every comparison
\* with NaN is false
EnergyLabel(c) ==
    IF IsNull(c) THEN <<"Medium">>
    ELSE IF c[1] < EnergyEdges[1] THEN <<"Low">>
    ELSE IF c[1] >= EnergyEdges[1] /\ c[1] < EnergyEdges[2] THEN <<"Medium">>
    ELSE IF c[1] >= EnergyEdges[2] THEN <<"High">>
    ELSE <<"Medium">>

MsPerMinute == 60000

\* duration_ms / 60000 as the exact quotient <<numerator, denominator>>
DurationMin(c) == IF IsNull(c) THEN NA ELSE <<c[1], MsPerMinute * Half>>

\* arithmetic and ordering of a string column raise TypeError
DurationRaises(t) ==
    "duration_ms" \in t.cols /\ t.dtype["duration_ms"] # "num"

EnergyRaises(t) == "energy" \in t.cols /\ t.dtype["energy"] # "num"

AddDuration(t) ==
    IF "duration_ms" \in t.cols
    THEN WithColumn(t, "duration_min", "num",
                    [i \in 1..Len(t.runs) |-> DurationMin(Cell(t, i, "duration_ms"))])
    ELSE t

\* the assignment of a category column inside try/except: the table is
\* left as it was when the computation r raised
AddCategory(t, name, r) ==
    IF r.raised THEN t ELSE WithColumn(t, name, "cat", r.col)

AddPopularity(t) ==
    IF "popularity" \in t.cols
    THEN Only({AddCategory(t, "popularity_category", r) :
                  r \in {PopularityCategory(t)}})
    ELSE t

AddDanceability(t) ==
    IF "danceability" \in t.cols
    THEN Only({AddCategory(t, "danceability_category", r) :
                  r \in {DanceabilityCategory(t)}})
    ELSE t

AddEnergy(t) ==
    IF "energy" \in t.cols
    THEN WithColumn(t, "energy_category", "obj",
                    [i \in 1..Len(t.runs) |-> EnergyLabel(Cell(t, i, "energy"))])
    ELSE t

(***************************************************************************)
(* test_hypotheses: the library statistics are inputs of the model.  A     *)
(* call either raises or returns a p-value (and a coefficient); the        *)
(* returned numbers are drawn from PVals and Signs, or are NaN.            *)
(***************************************************************************)
Tests == {"correlation", "anova", "normality"}

Alpha == 5

PVals == {4, 5, 6}

Signs == {-1, 0, 1}

MinCorrRows == 3

MinGenreObs == 10

MaxComparedGenres == 5

SampleCap == 5000

RandomState == 42

\* comparisons of a statistic with a number; false for NaN
Lt(c, x) == ~IsNull(c) /\ c[1] < x

Le(c, x) == ~IsNull(c) /\ c[1] <= x

Gt(c, x) == ~IsNull(c) /\ c[1] > x

Ge(c, x) == ~IsNull(c) /\ c[1] >= x

RaiseOutcome == [raised |-> TRUE, p |-> NA, r |-> NA]

Returned == {[raised |-> FALSE, p |-> <<p>>, r |-> <<r>>] : p \in PVals, r \in Signs}
            \cup {[raised |-> FALSE, p |-> NA, r |-> NA]}

\* stats.pearsonr(danceability, energy): raises on string columns and on
\* fewer than 2 rows; on a column with NaN it returns NaN or raises,
\* depending on the library version
Pearsonr(t) ==
    IF \/ t.dtype["danceability"] # "num"
       \/ t.dtype["energy"] # "num"
       \/ NRows(t) < 2
    THEN {RaiseOutcome}
    ELSE IF NullCount(t, "danceability") > 0 \/ NullCount(t, "energy") > 0
         THEN {RaiseOutcome, [raised |-> FALSE, p |-> NA, r |-> NA]}
    ELSE Returned

\* the decision with <= and >= in place of < and >
CorrelationVerdictLe(p, r) ==
    IF Le(p, Alpha)
    THEN (IF Ge(r, 0) THEN "accepted" ELSE "rejected")
    ELSE "rejected"

\* lines 352-362
CorrelationVerdict(p, r) ==
    IF Lt(p, Alpha)
    THEN (IF Gt(r, 0) THEN "accepted" ELSE "rejected")
    ELSE "rejected"

\* len(self.data['genre'].unique()): NaN counts as one value
NDistinct(t, c) == NUnique(t, c) + (IF NullCount(t, c) > 0 THEN 1 ELSE 0)

GenreCount(t, g) == CountOf(t, "genre", g)

FirstRun(t, g) ==
    CHOOSE i \in 1..Len(t.runs) :
        /\ Cell(t, i, "genre") = <<g>>
        /\ \A j \in 1..(i - 1) : Cell(t, j, "genre") # <<g>>

\* value_counts() order: descending count, ties in order of appearance
Before(t, g, h) ==
    \/ GenreCount(t, g) > GenreCount(t, h)
    \/ GenreCount(t, g) = GenreCount(t, h) /\ FirstRun(t, g) < FirstRun(t, h)

RECURSIVE OrderByCount(_, _)
OrderByCount(t, G) ==
    IF G = {} THEN <<>>
    ELSE LET g == CHOOSE x \in G : \A y \in G \ {x} : Before(t, x, y)
         IN  <<g>> \o OrderByCount(t, G \ {g})

\* no minimum number of observations
EnoughObsAny(t, g) == TRUE

\* genre_counts[genre_counts >= 10]
EnoughObs(t, g) == GenreCount(t, g) >= MinGenreObs

FrequentGenres(t) == {g \in Values(t, "genre") : EnoughObs(t, g)}

\* .index.tolist()[:5]; which of several equally frequent genres make the
\* cut depends on the sort used by value_counts, so every choice is allowed
ValidGenreLists(t) ==
    LET V == FrequentGenres(t)
    IN  IF Cardinality(V) <= MaxComparedGenres THEN {OrderByCount(t, V)}
        ELSE {OrderByCount(t, S) :
                S \in {X \in SUBSET V :
                         /\ Cardinality(X) = MaxComparedGenres
                         /\ \A g \in X, h \in V \ X :
                               GenreCount(t, g) >= GenreCount(t, h)}}

\* stats.f_oneway(*genre_data): raises on a string popularity column,
\* returns NaN when a group holds NaN
FOneway(t) ==
    IF t.dtype["popularity"] # "num" THEN {RaiseOutcome}
    ELSE IF NullCount(t, "popularity") > 0
         THEN {[raised |-> FALSE, p |-> NA, r |-> NA]}
    ELSE {o \in Returned : o.r = NA \/ o.r = <<0>>}

\* lines 394-402
AnovaVerdict(p) == IF Lt(p, Alpha) THEN "accepted" ELSE "rejected"

\* the post-hoc analysis also run at p = alpha
RunsPosthocLe(p) == Le(p, Alpha)

\* line 399 is inside the branch p_value < alpha of line 394
RunsPosthoc(p) == Lt(p, Alpha)

(***************************************************************************)
(* perform_posthoc_analysis.                                               *)
(***************************************************************************)
\* the rows of self.data[self.data['genre'] == g]['popularity']
GroupCount(t, g) ==
    SeqSum([i \in 1..Len(t.runs) |->
              IF Cell(t, i, "genre") = <<g>> THEN t.runs[i].n ELSE 0])

GroupPresent(t, g) ==
    SeqSum([i \in 1..Len(t.runs) |->
              IF Cell(t, i, "genre") = <<g>> /\ ~IsNull(Cell(t, i, "popularity"))
              THEN t.runs[i].n ELSE 0])

GroupSum(t, g) ==
    SeqSum([i \in 1..Len(t.runs) |->
              IF Cell(t, i, "genre") = <<g>> /\ ~IsNull(Cell(t, i, "popularity"))
              THEN t.runs[i].n * Cell(t, i, "popularity")[1] ELSE 0])

\* mean as the quotient <<sum, k>>, NaN when there is nothing to divide by;
\* the standard deviation is only printed beside it and orders nothing
Quotient(a, b) == IF b = 0 THEN NA ELSE <<a, b>>

GroupSummaryOf(g, k, sm, cnt) ==
    [genre |-> g, mean |-> Quotient(sm, k), count |-> cnt]

GroupSummary(t, g) ==
    Only({GroupSummaryOf(g, k, sm, GroupCount(t, g)) :
             k \in {GroupPresent(t, g)}, sm \in {GroupSum(t, g)}})

\* a > b for quotients with positive denominators; false for NaN
QGt(a, b) == ~IsNull(a) /\ ~IsNull(b) /\ a[1] * b[2] > b[1] * a[2]

\* sorted(..., key=mean, reverse=True): descending mean, equal means in
\* the order of the list
RECURSIVE SortedByMean(_)
SortedByMean(s) ==
    IF s = <<>> THEN <<>>
    ELSE LET i == CHOOSE k \in 1..Len(s) :
                     \A j \in 1..Len(s) \ {k} :
                         \/ QGt(s[k].mean, s[j].mean)
                         \/ ~QGt(s[j].mean, s[k].mean) /\ k < j
         IN  <<s[i]>> \o SortedByMean([j \in 1..(Len(s) - 1) |->
                                         IF j < i THEN s[j] ELSE s[j + 1]])

NoPosthoc == [ran |-> FALSE, genres |-> <<>>, ranking |-> <<>>]

PerformPosthocAnalysis(t, genres) ==
    [ran     |-> TRUE,
     genres  |-> genres,
     ranking |-> SortedByMean([i \in 1..Len(genres) |-> GroupSummary(t, genres[i])])]

\* lines 420-423
SampleSize(n) == IF n > SampleCap THEN SampleCap ELSE n

SampleOf(t) ==
    [n    |-> SampleSize(NRows(t)),
     seed |-> IF NRows(t) > SampleCap THEN <<RandomState>> ELSE NA]

\* sample.mean() raises on a string column; stats.kstest raises or returns
\* NaN on an empty sample, depending on the library version
Kstest(t) ==
    IF t.dtype["popularity"] # "num" THEN {RaiseOutcome}
    ELSE IF NRows(t) = 0
         THEN {RaiseOutcome, [raised |-> FALSE, p |-> NA, r |-> NA]}
    ELSE {o \in Returned : o.r = NA \/ o.r = <<0>>}

\* the decision direction of the other two tests
NormalityVerdictLt(p) == IF Lt(p, Alpha) THEN "accepted" ELSE "rejected"

\* lines 435-440
NormalityVerdict(p) == IF Gt(p, Alpha) THEN "accepted" ELSE "rejected"

\* the f-string of generate_report reads three columns unconditionally,
\* takes their mean() and calls stats.pearsonr outside any try
ReportRaises(t) ==
    \/ \E c \in {"popularity", "danceability", "energy"} :
          c \notin t.cols \/ t.dtype[c] # "num"
    \/ Pearsonr(t) = {RaiseOutcome}

(***************************************************************************)
(* load_data: the tables read from spotify_tracks.csv.                     *)
(***************************************************************************)
Recognized == {"popularity", "danceability", "energy", "genre", "duration_ms"}

\* column_mapping of rename_columns (the identity entry duration_ms and the
\* columns that nothing reads afterwards are left out)
ColumnMapping == [track_popularity |-> "popularity", playlist_genre |-> "genre"]

NewName(c) == IF c \in DOMAIN ColumnMapping THEN ColumnMapping[c] ELSE c

OldName(t, d) == CHOOSE c \in t.cols : NewName(c) = d

RenameColumns(t) ==
    LET C == {NewName(c) : c \in t.cols}
    IN  [cols  |-> C,
         dtype |-> [d \in C |-> t.dtype[OldName(t, d)]],
         runs  |-> [i \in 1..Len(t.runs) |->
                      [row |-> [d \in C |-> t.runs[i].row[OldName(t, d)]],
                       n   |-> t.runs[i].n]]]

\* the same table under the column names of the downloaded dataset
RawName(c) ==
    IF c = "popularity" THEN "track_popularity"
    ELSE IF c = "genre" THEN "playlist_genre" ELSE c

RawNames(t) ==
    LET C == {RawName(c) : c \in t.cols}
        Back(d) == CHOOSE c \in t.cols : RawName(c) = d
    IN  [cols  |-> C,
         dtype |-> [d \in C |-> t.dtype[Back(d)]],
         runs  |-> [i \in 1..Len(t.runs) |->
                      [row |-> [d \in C |-> t.runs[i].row[Back(d)]],
                       n   |-> t.runs[i].n]]]

None == [cols |-> {}, dtype |-> <<>>, runs |-> <<>>]

Table(C, dt, cells, ns) ==
    [cols  |-> C,
     dtype |-> [c \in C |-> dt[c]],
     runs  |-> [i \in 1..Len(ns) |->
                  [row |-> [c \in C |-> cells[c][i]], n |-> ns[i]]]]

GenreNames == <<"pop", "rock", "hip-hop", "edm", "jazz", "latin", "rap", "soul">>

DType == [c \in Recognized |-> IF c = "genre" THEN "obj" ELSE "num"]

DefaultCell(c, i) ==
    IF c = "popularity" THEN <<Half * 10 * i>>
    ELSE IF c = "danceability" THEN <<Half * 20 * i>>
    ELSE IF c = "energy" THEN <<Half * (10 + 20 * i)>>
    ELSE IF c = "genre" THEN <<GenreNames[((i - 1) % 2) + 1]>>
    ELSE <<Half * 60000 * i>>

DefaultCells(C, k) == [c \in C |-> [i \in 1..k |-> DefaultCell(c, i)]]

Ones(k) == [i \in 1..k |-> 1]

\* every subset of the recognized columns, 0..MaxRuns rows
SchemaTables ==
    {Table(C, DType, DefaultCells(C, k), Ones(k)) :
        C \in SUBSET Recognized, k \in 0..MaxRuns}

\* one column c with every combination of the cells Dom; the first run is
\* repeated m times, m \in Reps
OneColumnTables(c, Dom, Reps) ==
    UNION {{Table({c}, DType, [d \in {c} |-> v],
                  [i \in 1..k |-> IF i = 1 THEN m ELSE 1]) :
               v \in [1..k -> Dom], m \in Reps} : k \in 1..MaxRuns}

PopularityTables ==
    OneColumnTables("popularity", {NA, <<0>>, <<Half>>, <<2 * Half>>}, {1, 3})

DanceabilityTables ==
    OneColumnTables("danceability",
                    {NA} \cup {<<Half * v>> : v \in {0, 39, 40, 70, 71, 100, 150}},
                    {1})

EnergyTables ==
    OneColumnTables("energy", {NA} \cup {<<Half * v>> : v \in {29, 30, 69, 70}}, {1})

\* popularity and genre with every pattern of absent cells
NullPatternTables ==
    UNION {{Table({"popularity", "genre"}, DType,
                  [c \in {"popularity", "genre"} |->
                     [i \in 1..k |-> IF <<c, i>> \in A THEN NA ELSE DefaultCell(c, i)]],
                  Ones(k)) :
               A \in SUBSET ({"popularity", "genre"} \X (1..k))} : k \in 1..MaxRuns}

\* up to MaxGenres genres with 9, 10 or 11 tracks each
GenreCountTables ==
    UNION {{Table({"genre", "popularity"}, DType,
                  [c \in {"genre", "popularity"} |->
                     [i \in 1..k |-> IF c = "genre" THEN <<GenreNames[i]>>
                                     ELSE DefaultCell(c, i)]],
                  ns) :
               ns \in [1..k -> {9, 10, 11}]} : k \in 0..MaxGenres}

\* all columns, two genres, row counts on both sides of the thresholds
FullTables ==
    {Table(Recognized, DType, DefaultCells(Recognized, 2), ns) :
        ns \in [1..2 -> {9, 10, 2500, 2501}]}

\* numeric columns read as strings
Text(s) == <<"str", s>>

MistypedTables ==
    {Table(Recognized,
           [c \in Recognized |-> IF c \in M THEN "obj" ELSE DType[c]],
           [c \in Recognized |->
              [i \in 1..3 |-> IF c \in M THEN Text("n/a") ELSE DefaultCell(c, i)]],
           Ones(3)) :
        M \in SUBSET {"popularity", "danceability", "energy", "duration_ms"}}

\* the 5-row table of the end-to-end scenario
ScenarioTable ==
    Table({"popularity", "genre", "danceability", "energy"}, DType,
          [popularity   |-> <<<<Half * 10>>, <<Half * 50>>, <<Half * 50>>,
                              <<Half * 90>>, <<Half * 95>>>>,
           genre        |-> <<<<"pop">>, <<"pop">>, <<"rock">>, <<"rock">>, <<"rock">>>>,
           danceability |-> <<<<Half * 10>>, <<Half * 50>>, <<Half * 60>>,
                              <<Half * 80>>, <<Half * 90>>>>,
           energy       |-> <<<<Half * 20>>, <<Half * 50>>, <<Half * 55>>,
                              <<Half * 85>>, <<Half * 95>>>>],
          Ones(5))

\* the tables read from the url of download_dataset, which carry the names
\* of the published dataset
DownloadTables == {RawNames(t) : t \in SchemaTables}

\* create_sample_data: n_samples rows over the five genres.  The cells of a
\* genre stand for the values the seeded generator draws within its ranges,
\* the split of the rows over the genres is left open.
NSamples == 2000

SampleColumns ==
    {"popularity", "danceability", "energy", "valence", "tempo", "genre", "duration_ms"}

SampleGenres == 5

SampleCell(c, i) ==
    IF c = "popularity" THEN <<Half * (10 + 20 * (i - 1))>>
    ELSE IF c = "danceability" THEN <<Half * (20 + 15 * (i - 1))>>
    ELSE IF c = "energy" THEN <<Half * (30 + 15 * (i - 1))>>
    ELSE IF c = "valence" THEN <<Half * (10 + 15 * (i - 1))>>
    ELSE IF c = "tempo" THEN <<Half * (60 + 20 * (i - 1))>>
    ELSE IF c = "genre" THEN <<GenreNames[i]>>
    ELSE <<Half * (120000 + 40000 * (i - 1))>>

SampleSplits ==
    {ns \in [1..SampleGenres -> {380, 400, 420}] : SeqSum(ns) = NSamples}

SampleTables ==
    {Table(SampleColumns,
           [c \in SampleColumns |-> IF c = "genre" THEN "obj" ELSE "num"],
           [c \in SampleColumns |-> [i \in 1..SampleGenres |-> SampleCell(c, i)]],
           ns) : ns \in SampleSplits}

Tables ==
    SchemaTables \cup PopularityTables \cup DanceabilityTables \cup EnergyTables
    \cup NullPatternTables \cup GenreCountTables \cup FullTables
    \cup MistypedTables \cup {ScenarioTable}

(***************************************************************************)
(* The pipeline of main().                                                 *)
(***************************************************************************)
NotRun == [t \in Tests |-> "NotRun"]

Init ==
    /\ pc = "load"
    /\ data = None
    /\ log = {}
    /\ status = NotRun
    /\ verdict = [t \in Tests |-> "none"]
    /\ attempts = [t \in Tests |-> 0]
    /\ p_value = [t \in Tests |-> NA]
    /\ corr = NA
    /\ valid_genres = <<>>
    /\ posthoc = NoPosthoc
    /\ sample = [n |-> 0, seed |-> NA]

\* what a loader returns: its result, the table it leaves in self.data and
\* the failures it has printed
Loaded(t, msgs) == [ok |-> TRUE, data |-> t, msgs |-> msgs]

\* lines 89-106
CreateSampleData == {Loaded(t, {}) : t \in SampleTables}

\* lines 72-87: the table read from the url, or on any error the sample data
DownloadDataset ==
    {Loaded(RenameColumns(t), {}) : t \in DownloadTables}
    \cup {Loaded(o.data, o.msgs \cup {"download failed"}) : o \in CreateSampleData}

\* lines 26-48: the table read from the file, the download when the file is
\* not found, False on any other error
LoadDataOutcomes ==
    {Loaded(RenameColumns(IF raw THEN RawNames(t) ELSE t), {}) :
        t \in Tables, raw \in BOOLEAN}
    \cup {Loaded(o.data, o.msgs \cup {"file not found"}) : o \in DownloadDataset}
    \cup {[ok |-> FALSE, data |-> None, msgs |-> {"load error"}]}

\* main going on after a failed load
MainIgnoresLoad(ok) == "prepare"

\* main, lines 538-540
MainAfterLoad(ok) == IF ok THEN "prepare" ELSE "exit"

\* load_data as main calls it
LoadData ==
    /\ pc = "load"
    /\ \E o \in LoadDataOutcomes :
          /\ data' = o.data
          /\ log' = log \cup o.msgs
          /\ pc' = MainAfterLoad(o.ok)
    /\ UNCHANGED <<status, verdict, attempts, p_value, corr,
                   valid_genres, posthoc, sample>>

\* prepare_data, lines 129-153
ResolveMissing ==
    /\ pc = "prepare"
    /\ data' = ResolveMissingValues(data)
    /\ pc' = "derive"
    /\ UNCHANGED <<log, status, verdict, attempts, p_value, corr,
                   valid_genres, posthoc, sample>>

\* prepare_data, lines 155-221
DeriveFeatures ==
    /\ pc = "derive"
    /\ IF DurationRaises(data)
       THEN /\ pc' = "aborted"
            /\ data' = data
            /\ log' = log
       ELSE \E t3 \in {AddDanceability(AddPopularity(AddDuration(data)))} :
              /\ log' = log
                      \cup (IF "popularity" \in t3.cols
                               /\ "popularity_category" \notin t3.cols
                            THEN {"popularity_category failed"} ELSE {})
                      \cup (IF "danceability" \in t3.cols
                               /\ "danceability_category" \notin t3.cols
                            THEN {"danceability_category failed"} ELSE {})
              /\ IF EnergyRaises(t3)
                 THEN pc' = "aborted" /\ data' = t3
                 ELSE pc' = "visualize" /\ data' = AddEnergy(t3)
    /\ UNCHANGED <<status, verdict, attempts, p_value, corr,
                   valid_genres, posthoc, sample>>

\* visualize_data: reads the table; every failure of the plotting body is
\* caught at line 327
VisualizeData ==
    /\ pc = "visualize"
    /\ pc' = "h1"
    /\ UNCHANGED <<data, log, status, verdict, attempts, p_value, corr,
                   valid_genres, posthoc, sample>>

\* a skipped test ends test_hypotheses
NextUnlessSkipped(next, st) == IF st = "Skipped" THEN "aborted" ELSE next

\* each test block is followed by the next one, whatever its outcome
NextAfter(next, st) == next

\* test_hypotheses, lines 337-370
Hypothesis1 ==
    /\ pc = "h1"
    /\ attempts' = [attempts EXCEPT !["correlation"] = @ + 1]
    /\ IF {"danceability", "energy"} \subseteq data.cols
       THEN IF NRows(data) >= MinCorrRows
            THEN \E o \in Pearsonr(data) :
                   IF o.raised
                   THEN /\ status' = [status EXCEPT !["correlation"] = "Skipped"]
                        /\ log' = log \cup {"hypothesis 1: error"}
                        /\ UNCHANGED <<verdict, p_value, corr>>
                   ELSE /\ status' = [status EXCEPT !["correlation"] = "Evaluated"]
                        /\ verdict' = [verdict EXCEPT !["correlation"] =
                                          CorrelationVerdict(o.p, o.r)]
                        /\ p_value' = [p_value EXCEPT !["correlation"] = o.p]
                        /\ corr' = o.r
                        /\ log' = log
            ELSE /\ status' = [status EXCEPT !["correlation"] = "Skipped"]
                 /\ log' = log \cup {"hypothesis 1: not enough rows"}
                 /\ UNCHANGED <<verdict, p_value, corr>>
       ELSE /\ status' = [status EXCEPT !["correlation"] = "Skipped"]
            /\ log' = log \cup {"hypothesis 1: missing columns"}
            /\ UNCHANGED <<verdict, p_value, corr>>
    /\ pc' = NextAfter("h2", status'["correlation"])
    /\ UNCHANGED <<data, valid_genres, posthoc, sample>>

\* test_hypotheses, lines 372-412, with perform_posthoc_analysis
Hypothesis2 ==
    /\ pc = "h2"
    /\ attempts' = [attempts EXCEPT !["anova"] = @ + 1]
    /\ IF {"genre", "popularity"} \subseteq data.cols
       THEN IF NDistinct(data, "genre") >= 2
            THEN \E vg \in ValidGenreLists(data) :
                   /\ valid_genres' = vg
                   /\ IF Len(vg) >= 2
                      THEN \E o \in FOneway(data) :
                             IF o.raised
                             THEN /\ status' = [status EXCEPT !["anova"] = "Skipped"]
                                  /\ log' = log \cup {"hypothesis 2: error"}
                                  /\ UNCHANGED <<verdict, p_value, posthoc>>
                             ELSE /\ status' = [status EXCEPT !["anova"] = "Evaluated"]
                                  /\ verdict' = [verdict EXCEPT !["anova"] =
                                                    AnovaVerdict(o.p)]
                                  /\ p_value' = [p_value EXCEPT !["anova"] = o.p]
                                  /\ posthoc' = IF RunsPosthoc(o.p)
                                                THEN PerformPosthocAnalysis(data, vg)
                                                ELSE posthoc
                                  /\ log' = log
                      ELSE /\ status' = [status EXCEPT !["anova"] = "Skipped"]
                           /\ log' = log \cup {"hypothesis 2: not enough genres with data"}
                           /\ UNCHANGED <<verdict, p_value, posthoc>>
            ELSE /\ status' = [status EXCEPT !["anova"] = "Skipped"]
                 /\ log' = log \cup {"hypothesis 2: fewer than 2 genres"}
                 /\ UNCHANGED <<verdict, p_value, posthoc, valid_genres>>
       ELSE /\ status' = [status EXCEPT !["anova"] = "Skipped"]
            /\ log' = log \cup {"hypothesis 2: missing columns"}
            /\ UNCHANGED <<verdict, p_value, posthoc, valid_genres>>
    /\ pc' = NextAfter("h3", status'["anova"])
    /\ UNCHANGED <<data, corr, sample>>

\* test_hypotheses, lines 414-446
Hypothesis3 ==
    /\ pc = "h3"
    /\ attempts' = [attempts EXCEPT !["normality"] = @ + 1]
    /\ IF "popularity" \in data.cols
       THEN /\ sample' = SampleOf(data)
            /\ \E o \in Kstest(data) :
                 IF o.raised
                 THEN /\ status' = [status EXCEPT !["normality"] = "Skipped"]
                      /\ log' = log \cup {"hypothesis 3: error"}
                      /\ UNCHANGED <<verdict, p_value>>
                 ELSE /\ status' = [status EXCEPT !["normality"] = "Evaluated"]
                      /\ verdict' = [verdict EXCEPT !["normality"] =
                                        NormalityVerdict(o.p)]
                      /\ p_value' = [p_value EXCEPT !["normality"] = o.p]
                      /\ log' = log
       ELSE /\ status' = [status EXCEPT !["normality"] = "Skipped"]
            /\ log' = log \cup {"hypothesis 3: missing column"}
            /\ UNCHANGED <<verdict, p_value, sample>>
    /\ pc' = NextAfter("report", status'["normality"])
    /\ UNCHANGED <<data, corr, valid_genres, posthoc>>

\* generate_report, lines 489-531
GenerateReport ==
    /\ pc = "report"
    /\ pc' = IF ReportRaises(data) THEN "aborted" ELSE "done"
    /\ UNCHANGED <<data, log, status, verdict, attempts, p_value, corr,
                   valid_genres, posthoc, sample>>

Next ==
    \/ LoadData
    \/ ResolveMissing
    \/ DeriveFeatures
    \/ VisualizeData
    \/ Hypothesis1
    \/ Hypothesis2
    \/ Hypothesis3
    \/ GenerateReport

Spec == Init /\ [][Next]_vars

(***************************************************************************)
(* Properties.                                                             *)
(***************************************************************************)
\* prepare_data has returned
Prepared == pc \in {"visualize", "h1", "h2", "h3", "report", "done"}

Banded(t, src, cat) ==
    \A i \in 1..Len(t.runs) :
        ~IsNull(Cell(t, i, src)) =>
            /\ cat \in t.cols
            /\ Cell(t, i, cat) \in {<<"Low">>, <<"Medium">>, <<"High">>}

\* C1: a run of the pipeline never ends in an uncaught error, whatever the
\* table and whichever recognized columns are absent.
C1_NeverAborts == pc # "aborted"

\* C2 as stated: after prepare_data 0.39 is Low, 0.40 is Medium, 0.70 is
\* Medium and 0.71 is High.
C2_BandsAsStated ==
    (Prepared /\ "danceability" \in data.cols /\ data.dtype["danceability"] = "num") =>
        /\ "danceability_category" \in data.cols
        /\ \A i \in 1..Len(data.runs) :
              LET x == Cell(data, i, "danceability")
                  b == Cell(data, i, "danceability_category")
              IN  /\ x = <<Half * 39>> => b = <<"Low">>
                  /\ x = <<Half * 40>> => b = <<"Medium">>
                  /\ x = <<Half * 70>> => b = <<"Medium">>
                  /\ x = <<Half * 71>> => b = <<"High">>

\* C2 amended: danceability_category has the fixed edges 0, 0.4, 0.7, 1.0
\* with the upper edge of each interval inclusive, so that 0.39 is Low,
\* 0.40 is Low, 0.70 is Medium and 0.71 is High.
C2_DanceabilityBands ==
    (Prepared /\ "danceability" \in data.cols /\ data.dtype["danceability"] = "num") =>
        /\ "danceability_category" \in data.cols
        /\ \A i \in 1..Len(data.runs) :
              LET x == Cell(data, i, "danceability")
                  b == Cell(data, i, "danceability_category")
              IN  /\ x = <<Half * 39>> => b = <<"Low">>
                  /\ x = <<Half * 40>> => b = <<"Low">>
                  /\ x = <<Half * 70>> => b = <<"Medium">>
                  /\ x = <<Half * 71>> => b = <<"High">>
                  /\ ~IsNull(x) =>
                       /\ b = <<"Low">> <=> (0 < x[1] /\ x[1] <= Half * 40)
                       /\ b = <<"Medium">> <=> (Half * 40 < x[1] /\ x[1] <= Half * 70)
                       /\ b = <<"High">> <=> (Half * 70 < x[1] /\ x[1] <= Half * 100)

C2_Witness ==
    /\ Prepared
    /\ "danceability_category" \in data.cols
    /\ \E i, j \in 1..Len(data.runs) :
          /\ Cell(data, i, "danceability") = <<Half * 40>>
          /\ Cell(data, i, "danceability_category") = <<"Low">>
          /\ Cell(data, j, "danceability") = <<Half * 70>>
          /\ Cell(data, j, "danceability_category") = <<"Medium">>

\* C3: after prepare_data every row with a present popularity, danceability
\* or energy value carries one of the labels Low, Medium, High in the
\* corresponding category column.
C3_EveryValueBanded ==
    Prepared =>
        /\ ("popularity" \in data.cols /\ data.dtype["popularity"] = "num")
              => Banded(data, "popularity", "popularity_category")
        /\ ("danceability" \in data.cols /\ data.dtype["danceability"] = "num")
              => Banded(data, "danceability", "danceability_category")
        /\ ("energy" \in data.cols /\ data.dtype["energy"] = "num")
              => Banded(data, "energy", "energy_category")

\* C4: when popularity has at least 3 distinct values and the quantile
\* edges collapse, popularity_category is still created, by equal-width
\* binning.
C4_FallbackOnQcutFailure ==
    (/\ Prepared
     /\ "popularity" \in data.cols
     /\ data.dtype["popularity"] = "num"
     /\ NUnique(data, "popularity") >= 3
     /\ ~EdgesUnique(QcutEdges(data, "popularity")))
    => /\ "popularity_category" \in data.cols
       /\ Column(data, "popularity_category") = Cut3(data, "popularity").col

\* C5: right after the missing-value step no numeric and no string column
\* holds an absent value.
C5_NoAbsentAfterResolve ==
    pc = "derive" =>
        \A c \in data.cols :
            data.dtype[c] \in {"num", "obj"} => NullCount(data, c) = 0

Survivors(t) == {g \in Values(t, "genre") : GenreCount(t, g) >= MinGenreObs}

\* C6: the analysis of variance is evaluated only on at least 2 genres,
\* each with at least 10 rows, at most 5 of them and none less frequent
\* than a left-out genre with at least 10 rows; with fewer than 2 such
\* genres the test is Skipped and has no p-value and no verdict.
C6_GroupMeanFilter ==
    (attempts["anova"] = 1 /\ {"genre", "popularity"} \subseteq data.cols) =>
        /\ status["anova"] = "Evaluated" =>
              /\ Len(valid_genres) >= 2
              /\ Len(valid_genres) <= MaxComparedGenres
              /\ Len(valid_genres) = Cardinality({valid_genres[i] : i \in 1..Len(valid_genres)})
              /\ \A i \in 1..Len(valid_genres) : valid_genres[i] \in Survivors(data)
              /\ Len(valid_genres) < MaxComparedGenres =>
                    {valid_genres[i] : i \in 1..Len(valid_genres)} = Survivors(data)
              /\ \A i \in 1..Len(valid_genres) :
                    \A h \in Survivors(data) \ {valid_genres[j] : j \in 1..Len(valid_genres)} :
                        GenreCount(data, valid_genres[i]) >= GenreCount(data, h)
        /\ Cardinality(Survivors(data)) < 2 =>
              /\ status["anova"] = "Skipped"
              /\ verdict["anova"] = "none"
              /\ p_value["anova"] = NA
              /\ ~posthoc.ran

C6_Witness ==
    /\ attempts["anova"] = 1
    /\ {"genre", "popularity"} \subseteq data.cols
    /\ NDistinct(data, "genre") >= 2
    /\ Cardinality(Survivors(data)) = 1
    /\ status["anova"] = "Skipped"

\* C7: the correlation test is evaluated only with both columns present
\* and at least 3 rows; its verdict is accepted exactly when p < 0.05 and
\* the coefficient is positive, rejected otherwise.
C7_CorrelationDecision ==
    status["correlation"] = "Evaluated" =>
        /\ {"danceability", "energy"} \subseteq data.cols
        /\ NRows(data) >= 3
        /\ verdict["correlation"] \in {"accepted", "rejected"}
        /\ verdict["correlation"] = "accepted" <=>
              (Lt(p_value["correlation"], 5) /\ Gt(corr, 0))
        /\ (Lt(p_value["correlation"], 5) /\ Le(corr, 0)) =>
              verdict["correlation"] = "rejected"
        /\ Ge(p_value["correlation"], 5) => verdict["correlation"] = "rejected"

C7_Witness ==
    /\ status["correlation"] = "Evaluated"
    /\ p_value["correlation"] = <<4>>
    /\ corr = <<1>>
    /\ verdict["correlation"] = "accepted"
    /\ NRows(data) = 3

RunsOf(t, c) == [i \in 1..Len(t.runs) |-> <<Cell(t, i, c), t.runs[i].n>>]

\* C9: resolving the missing values of a resolved table changes nothing,
\* and the missing-value step leaves every column without absent values
\* as it was.
C9_ResolveIdempotent ==
    /\ [](pc \notin {"load", "prepare"} => ResolveMissingValues(data) = data)
    /\ [][pc = "prepare" =>
            \A c \in data.cols :
                NullCount(data, c) = 0 =>
                    (c \in data'.cols /\ RunsOf(data', c) = RunsOf(data, c))]_vars

C9_Witness ==
    /\ pc = "derive"
    /\ {"genre", "popularity"} \subseteq data.cols
    /\ \E i, j \in 1..Len(data.runs) :
          /\ Cell(data, i, "genre") = <<Unknown>>
          /\ Cell(data, j, "genre") # <<Unknown>>
    /\ Values(data, "popularity") = {Half * 10, Half * 20, Half * 30}
    /\ NullCount(data, "popularity") = 0

Terminal == {"Evaluated", "Skipped"}

\* C10: test_hypotheses runs each of the three tests exactly once, to
\* Evaluated or Skipped; a finished test is never run again or changed, and
\* a skipped test does not keep the later ones from running.
C10_TestStateMachine ==
    /\ [](pc \in {"report", "done"} =>
            \A t \in Tests : status[t] \in Terminal /\ attempts[t] = 1)
    /\ [](\A t \in Tests : (status[t] \in Terminal <=> attempts[t] = 1)
                           /\ attempts[t] <= 1)
    /\ [](pc = "aborted" =>
            \/ \A t \in Tests : attempts[t] = 0
            \/ \A t \in Tests : attempts[t] = 1)
    /\ [][\A t \in Tests :
            status[t] \in Terminal =>
                /\ status'[t] = status[t]
                /\ attempts'[t] = attempts[t]
                /\ verdict'[t] = verdict[t]]_vars

C10_Witness ==
    /\ pc = "report"
    /\ "hypothesis 1: error" \in log
    /\ status["correlation"] = "Skipped"
    /\ status["anova"] = "Skipped"
    /\ status["normality"] = "Evaluated"

PopOf(t, g) ==
    [i \in 1..Len(t.runs) |->
       IF Cell(t, i, "genre") = <<g>> THEN t.runs[i].n * Cell(t, i, "popularity")[1]
       ELSE 0]

\* mean popularity of genre g at least that of genre h
MeanAtLeast(t, g, h) ==
    SeqSum(PopOf(t, g)) * GenreCount(t, h) >= SeqSum(PopOf(t, h)) * GenreCount(t, g)

\* C11: the post-hoc comparison has run exactly when the group-mean test
\* was evaluated with p < 0.05 (accepted), never after a rejected or skipped
\* test; it is given the list of genres the test compared and lists one
\* summary per genre of that list, in descending order of mean popularity.
C11_PosthocOnlyWhenAccepted ==
    /\ attempts["anova"] = 0 => posthoc = NoPosthoc
    /\ attempts["anova"] = 1 =>
          /\ posthoc.ran <=> (status["anova"] = "Evaluated" /\ Lt(p_value["anova"], 5))
          /\ posthoc.ran <=> verdict["anova"] = "accepted"
          /\ ~posthoc.ran => posthoc = NoPosthoc
          /\ posthoc.ran =>
                /\ posthoc.genres = valid_genres
                /\ Len(posthoc.ranking) = Len(valid_genres)
                /\ {posthoc.ranking[i].genre : i \in 1..Len(posthoc.ranking)}
                      = {valid_genres[i] : i \in 1..Len(valid_genres)}
                /\ \A i \in 1..Len(posthoc.ranking) :
                      /\ posthoc.ranking[i].count = GenreCount(data, posthoc.ranking[i].genre)
                      /\ posthoc.ranking[i].mean =
                            <<SeqSum(PopOf(data, posthoc.ranking[i].genre)),
                              posthoc.ranking[i].count>>
                /\ \A i, j \in 1..Len(posthoc.ranking) :
                      i < j => MeanAtLeast(data, posthoc.ranking[i].genre,
                                           posthoc.ranking[j].genre)

C11_Witness ==
    /\ posthoc.ran
    /\ Len(posthoc.ranking) = MaxComparedGenres
    /\ Cardinality(Survivors(data)) > MaxComparedGenres
    /\ posthoc.ranking[1].genre # valid_genres[1]

\* the columns a hypothesis test reads
ColumnsRead(t) ==
    CASE t = "correlation" -> {"danceability", "energy"}
      [] t = "anova"       -> {"genre", "popularity"}
      [] t = "normality"   -> {"popularity"}

DerivedColumns ==
    {"duration_min", "popularity_category", "danceability_category", "energy_category"}

\* C12: the pipeline is one pass, missing-value resolution, then feature
\* derivation, then hypothesis testing: nothing is derived before the
\* resolution has finished, no test runs before the derivation has finished,
\* and no test has been evaluated on a column that still holds an absent
\* value.
C12_TestsReadResolvedColumns ==
    /\ pc \in {"load", "prepare"} => data.cols \cap DerivedColumns = {}
    /\ pc \in {"load", "prepare", "derive", "visualize"} =>
          \A t \in Tests : attempts[t] = 0
    /\ \A t \in Tests :
          status[t] = "Evaluated" =>
              \A c \in ColumnsRead(t) : NullCount(data, c) = 0

\* main has returned right after load_data, and no stage has run
NothingRan ==
    /\ data = None
    /\ \A t \in Tests : attempts[t] = 0 /\ status[t] = "NotRun"
    /\ posthoc = NoPosthoc

\* the fallback chain without the size of the table
FallbackChain ==
    /\ "download failed" \in log => "file not found" \in log
    /\ "file not found" \in log => pc # "exit" /\ "load error" \notin log
    /\ "download failed" \in log =>
          /\ NRows(data) = NSamples
          /\ SampleColumns \subseteq data.cols
    /\ pc = "exit" <=> "load error" \in log
    /\ pc = "exit" => NothingRan /\ log = {"load error"}

\* C13 as stated: when the file is not found load_data returns True with a
\* non-empty table, the download or the 2000-row sample data; it returns
\* False only on another error of the read, without any fallback, and main
\* then runs no stage.
C13_NonEmptyAfterFallback ==
    /\ FallbackChain
    /\ "file not found" \in log => NRows(data) > 0

\* C13, amended: as stated, but the table of a successful download is kept
\* whatever it holds, with no rows too; only the sample data is known to
\* have rows, 2000 of them.
C13_FallbackChain ==
    /\ FallbackChain
    /\ ("file not found" \in log /\ NRows(data) = 0) => "download failed" \notin log

C13_Witness ==
    /\ pc = "done"
    /\ "download failed" \in log
    /\ NRows(data) = NSamples
    /\ \A t \in Tests : status[t] = "Evaluated"

====
